---- MODULE Spec2Model ----
(***************************************************************************)
(* A model of text_parse.py: the VK request gateway (make_vk_request), the *)
(* wall client (get_group_posts), the keyword matcher                      *)
(* (search_text_in_posts), the domain resolver (extract_domain_from_link), *)
(* the harvest coordinator (start_parsing / run_parsing /                  *)
(* process_community / on_parsing_finished) and the report merge           *)
(* (create_report).                                                        *)
(*                                                                         *)
(* Strings are sequences of one-character strings, so that lower(),        *)
(* strip(), the substring test and the regular expressions are computed.   *)
(***************************************************************************)
EXTENDS Integers, Sequences, FiniteSets, TLC

VARIABLES
    \* ---- make_vk_request (one logical gateway call) ----
    gw_pc,          \* "idle" | "loop" | "returned" | "raised"
    gw_attempt,     \* the for-loop variable `attempt`
    gw_trace,       \* what the call did so far: sleeps and HTTP attempts
    gw_result,      \* nothing yet, the returned data, or the raised VKAPIError
    \* ---- search_text_in_posts (one call) ----
    m_pc,           \* "idle" | "loop" | "done"
    m_posts,        \* argument posts
    m_texts,        \* argument search_texts, as the caller gave it
    m_idx,          \* number of posts the for loop has taken
    m_results,      \* local results
    m_stopped,      \* the loop left through `if self.stop_flag: break`
    \* ---- extract_domain_from_link (one call) ----
    r_pc,           \* "ready" | "done"
    r_link,         \* argument link
    r_domain,       \* returned value
    \* ---- VKParser fields ----
    communities,            \* self.communities
    search_texts,           \* self.search_texts
    running,                \* self.running
    stop_flag,              \* self.stop_flag
    last_communities_hash,  \* self.last_communities_hash
    \* ---- run_parsing (the background run) ----
    run_pc,         \* "idle" | "submitted" | "collect" | "drain" | "report" | "emit" | "finished"
    run_targets,    \* self.communities as run_parsing read it
    window,         \* the arguments (start_date, end_date) of run_parsing
    futures,        \* the futures of the run, one per submitted community
    yielded,        \* futures as_completed has handed to the for loop
    results,        \* local results
    empty_communities, \* local empty_communities
    \* ---- the report artifact and the clock ----
    artifact,       \* None, or the workbook saved at the canonical path
    today,          \* the day datetime.now() falls on
    rep_last,       \* what the last create_report call saw and did
    \* ---- further calls and collaborators ----
    dates,          \* one call of get_selected_dates
    wall,           \* one call of get_group_posts
    tg_fetch,       \* one call of TelegramParser.get_channel_posts
    auth,           \* the Telegram client and the authentication dialog
    ui,             \* what update_progress and update_status have emitted
    config          \* vk_parser_config.json

gwVars == <<gw_pc, gw_attempt, gw_trace, gw_result>>
mVars == <<m_pc, m_posts, m_texts, m_idx, m_results, m_stopped>>
rVars == <<r_pc, r_link, r_domain>>
appVars == <<communities, search_texts, running, stop_flag, last_communities_hash>>
runVars == <<run_pc, run_targets, window, futures, yielded, results, empty_communities>>
repVars == <<artifact, today, rep_last>>
extVars == <<dates, wall, tg_fetch, auth, ui, config>>
vars == <<gwVars, mVars, rVars, appVars, runVars, repVars, extVars>>

(***************************************************************************)
(* Program constants.                                                      *)
(***************************************************************************)
MAX_POSTS == 100
MAX_WORKERS == 5
\* REQUEST_DELAY = 0.34 s, in hundredths of a second
REQUEST_DELAY == 34
MAX_ATTEMPTS == 3
BACKOFF_FACTOR == 2
\* error_code 6, "Too many requests"
TOO_MANY_REQUESTS == 6
\* one second, in hundredths of a second
SECOND == 100
\* the page size of wall.get and the full-page test of get_group_posts
PAGE_SIZE == 100
FATAL_CODES == {5, 15, 18, 100}

RECURSIVE Pow(_, _)
Pow(b, e) == IF e = 0 THEN 1 ELSE b * Pow(b, e - 1)

(***************************************************************************)
(* make_vk_request.                                                        *)
(*                                                                         *)
(* An HTTP response is a record: kind "exception" is a                     *)
(* requests.exceptions.RequestException raised by requests.get, kind       *)
(* "error" a JSON body with an 'error' field carrying error_code, kind     *)
(* "data" a JSON body with a 'response' field holding items, kind          *)
(* "noresponse" a JSON body with neither field.                            *)
(***************************************************************************)
ExcResp == [kind |-> "exception", error_code |-> 0, items |-> <<>>]
ErrResp(code) == [kind |-> "error", error_code |-> code, items |-> <<>>]
DataResp(items) == [kind |-> "data", error_code |-> 0, items |-> items]
OddResp == [kind |-> "noresponse", error_code |-> 0, items |-> <<>>]

\* What the call has produced: nothing yet, the returned JSON, or the raised
\* VKAPIError with the number its message carries (the error code of a fatal
\* answer, the attempt count after the last attempt).
NoResult == [status |-> "none", msg |-> "", n |-> 0, data |-> OddResp]
Returned(resp) == [status |-> "data", msg |-> "", n |-> 0, data |-> resp]
ApiError(code) == [status |-> "VKAPIError", msg |-> "VK API error", n |-> code, data |-> OddResp]
AttemptsError == [status |-> "VKAPIError", msg |-> "attempts", n |-> MAX_ATTEMPTS, data |-> OddResp]

\* time.sleep(REQUEST_DELAY * (BACKOFF_FACTOR ** attempt))
PaceSleep(attempt) == REQUEST_DELAY * Pow(BACKOFF_FACTOR, attempt)
\* time.sleep(1 + attempt)
ExtraSleep(attempt) == (1 + attempt) * SECOND

\* A mutant of AttemptOutcome: the trailing `continue` of the error branch is
\* missing, so a non-fatal, non-rate-limit error falls through to `return data`.
AttemptOutcome_NoContinue(attempt, resp) ==
    IF resp.kind = "exception"
    THEN [next |-> "continue", extra |-> 0, result |-> NoResult]
    ELSE IF resp.kind = "error" /\ resp.error_code = TOO_MANY_REQUESTS
    THEN [next |-> "continue", extra |-> ExtraSleep(attempt), result |-> NoResult]
    ELSE IF resp.kind = "error" /\ resp.error_code \in FATAL_CODES
    THEN [next |-> "raise", extra |-> 0, result |-> ApiError(resp.error_code)]
    ELSE [next |-> "return", extra |-> 0, result |-> Returned(resp)]

\* A mutant of AttemptOutcome: code 100 is missing from the fatal list.
AttemptOutcome_FatalRetried(attempt, resp) ==
    IF resp.kind = "exception"
    THEN [next |-> "continue", extra |-> 0, result |-> NoResult]
    ELSE IF resp.kind = "error" /\ resp.error_code = TOO_MANY_REQUESTS
    THEN [next |-> "continue", extra |-> ExtraSleep(attempt), result |-> NoResult]
    ELSE IF resp.kind = "error" /\ resp.error_code \in (FATAL_CODES \ {100})
    THEN [next |-> "raise", extra |-> 0, result |-> ApiError(resp.error_code)]
    ELSE IF resp.kind = "error"
    THEN [next |-> "continue", extra |-> 0, result |-> NoResult]
    ELSE [next |-> "return", extra |-> 0, result |-> Returned(resp)]

\* A mutant of AttemptOutcome: the rate-limit code is classified with the fatal
\* codes and raises at once.
AttemptOutcome_RateFatal(attempt, resp) ==
    IF resp.kind = "exception"
    THEN [next |-> "continue", extra |-> 0, result |-> NoResult]
    ELSE IF resp.kind = "error" /\ resp.error_code \in (FATAL_CODES \cup {TOO_MANY_REQUESTS})
    THEN [next |-> "raise", extra |-> 0, result |-> ApiError(resp.error_code)]
    ELSE IF resp.kind = "error"
    THEN [next |-> "continue", extra |-> 0, result |-> NoResult]
    ELSE [next |-> "return", extra |-> 0, result |-> Returned(resp)]

\* The body of the for loop for one answer of requests.get: how the iteration
\* ends ("continue", "return", "raise"), the extra sleep it makes, and what it
\* returns or raises. A RequestException is caught and the loop continues; an
\* 'error' with code 6 sleeps and continues; a fatal code raises VKAPIError,
\* which the except clause does not catch; any other 'error' continues; a body
\* without 'error' is returned.
AttemptOutcome(attempt, resp) ==
    IF resp.kind = "exception"
    THEN [next |-> "continue", extra |-> 0, result |-> NoResult]
    ELSE IF resp.kind = "error" /\ resp.error_code = TOO_MANY_REQUESTS
    THEN [next |-> "continue", extra |-> ExtraSleep(attempt), result |-> NoResult]
    ELSE IF resp.kind = "error" /\ resp.error_code \in FATAL_CODES
    THEN [next |-> "raise", extra |-> 0, result |-> ApiError(resp.error_code)]
    ELSE IF resp.kind = "error"
    THEN [next |-> "continue", extra |-> 0, result |-> NoResult]
    ELSE [next |-> "return", extra |-> 0, result |-> Returned(resp)]

\* The events one iteration adds to the trace of the call.
SleepEv(cs) == [ev |-> "sleep", cs |-> cs, attempt |-> 0, resp |-> OddResp]
HttpEv(attempt, resp) == [ev |-> "http", cs |-> 0, attempt |-> attempt, resp |-> resp]
AttemptEvents(attempt, resp) ==
    LET o == AttemptOutcome(attempt, resp)
    IN  <<SleepEv(PaceSleep(attempt)), HttpEv(attempt, resp)>>
        \o (IF o.extra > 0 THEN <<SleepEv(o.extra)>> ELSE <<>>)

\* make_vk_request run to its end over the answers resps[1], resps[2], ... of
\* its HTTP attempts: the result (returned or raised) and the number of
\* answers it used. resps holds at least MAX_ATTEMPTS answers.
RECURSIVE MakeVkRequestFrom(_, _)
MakeVkRequestFrom(attempt, resps) ==
    IF attempt >= MAX_ATTEMPTS
    THEN [result |-> AttemptsError, used |-> attempt]
    ELSE LET o == AttemptOutcome(attempt, resps[attempt + 1])
         IN  IF o.next = "continue"
             THEN MakeVkRequestFrom(attempt + 1, resps)
             ELSE [result |-> o.result, used |-> attempt + 1]
MakeVkRequest(resps) == MakeVkRequestFrom(0, resps)

(***************************************************************************)
(* Strings: str.lower, str.strip, the `in` substring test, str.startswith. *)
(***************************************************************************)
UpperToLower == [A |-> "a", B |-> "b", C |-> "c", D |-> "d", E |-> "e", F |-> "f", G |-> "g", H |-> "h", I |-> "i", J |-> "j", K |-> "k", L |-> "l", M |-> "m", N |-> "n", O |-> "o", P |-> "p", Q |-> "q", R |-> "r", S |-> "s", T |-> "t", U |-> "u", V |-> "v", W |-> "w", X |-> "x", Y |-> "y", Z |-> "z"]
LowerChar(c) == IF c \in DOMAIN UpperToLower THEN UpperToLower[c] ELSE c
\* s.lower()
Lower(s) == [i \in 1..Len(s) |-> LowerChar(s[i])]

Whitespace == {" "}
RECURSIVE LStrip(_)
LStrip(s) == IF s # <<>> /\ Head(s) \in Whitespace THEN LStrip(Tail(s)) ELSE s
RECURSIVE RStrip(_)
RStrip(s) ==
    IF s # <<>> /\ s[Len(s)] \in Whitespace THEN RStrip(SubSeq(s, 1, Len(s) - 1)) ELSE s
\* s.strip()
Strip(s) == RStrip(LStrip(s))

\* word in text
Contains(word, text) ==
    \E i \in 0..(Len(text) - Len(word)) : SubSeq(text, i + 1, i + Len(word)) = word

\* s.startswith(prefix)
StartsWith(s, prefix) == Len(s) >= Len(prefix) /\ SubSeq(s, 1, Len(prefix)) = prefix

(***************************************************************************)
(* extract_domain_from_link.                                               *)
(*                                                                         *)
(* Every pattern of the three lists is a literal followed by one capture   *)
(* group, a greedy run of a character class, and possibly `$`. A pattern   *)
(* is the record of its literal (ANY stands for an unescaped `.`), the     *)
(* class of the group and whether `$` follows the group.                   *)
(***************************************************************************)
ANY == "ANY"
Letters == {"a", "b", "c", "d", "e", "f", "g", "h", "i", "j", "k", "l", "m", "n", "o", "p", "q", "r", "s", "t", "u", "v", "w", "x", "y", "z"}
DigitChars == {"0", "1", "2", "3", "4", "5", "6", "7", "8", "9"}
\* [a-z0-9_\-\.]
HandleChars == Letters \cup DigitChars \cup {"_", "-", "."}

patterns_vk == <<
    [lit |-> <<"v", "k", ".", "c", "o", "m", "/">>, cls |-> HandleChars, anchored |-> FALSE],
    [lit |-> <<"c", "l", "u", "b">>, cls |-> DigitChars, anchored |-> FALSE],
    [lit |-> <<"p", "u", "b", "l", "i", "c">>, cls |-> DigitChars, anchored |-> FALSE],
    [lit |-> <<>>, cls |-> HandleChars, anchored |-> TRUE] >>
patterns_ok == <<
    [lit |-> <<"o", "k", ".", "r", "u", "/">>, cls |-> HandleChars, anchored |-> FALSE],
    [lit |-> <<"g", "r", "o", "u", "p", "/">>, cls |-> HandleChars, anchored |-> FALSE],
    [lit |-> <<"t", "o", "p", "i", "c", "/">>, cls |-> HandleChars, anchored |-> FALSE],
    [lit |-> <<"p", "r", "o", "f", "i", "l", "e", "/">>, cls |-> HandleChars, anchored |-> FALSE],
    [lit |-> <<"v", "i", "d", "e", "o", "/">>, cls |-> HandleChars, anchored |-> FALSE],
    [lit |-> <<"s", "t", "a", "t", "u", "s", "e", "s", "/">>, cls |-> HandleChars, anchored |-> FALSE] >>
patterns_tg == <<
    [lit |-> <<"t", "e", "l", "e", "g", "r", "a", "m", ANY, "m", "e", " ">>, cls |-> HandleChars, anchored |-> FALSE],
    [lit |-> <<"t", "g", ".", "m", "e", "/">>, cls |-> HandleChars, anchored |-> FALSE],
    [lit |-> <<"t", ".", "m", "e", "/">>, cls |-> HandleChars, anchored |-> FALSE],
    [lit |-> <<"t", "e", "l", "e", "g", "r", "a", "m", ".", "o", "r", "g", "/">>, cls |-> HandleChars, anchored |-> FALSE] >>

\* The pattern matches with its first character at position i of s: the
\* literal, then at least one character of the class, and with `$` the run of
\* class characters reaches the end of s.
MatchesAt(p, s, i) ==
    LET n == Len(p.lit)
    IN  /\ i + n <= Len(s)
        /\ \A k \in 1..n : p.lit[k] = ANY \/ p.lit[k] = s[i + k - 1]
        /\ s[i + n] \in p.cls
        /\ p.anchored => \A j \in (i + n)..Len(s) : s[j] \in p.cls

\* The last position of the greedy run of class characters that starts at j.
RECURSIVE RunEnd(_, _, _)
RunEnd(s, j, cls) ==
    IF j < Len(s) /\ s[j + 1] \in cls THEN RunEnd(s, j + 1, cls) ELSE j

NoDomain == <<>>
\* re.search(pattern, link): the leftmost match; group(1) is its capture.
\* No match is [found |-> FALSE].
Search(p, s) ==
    LET starts == {i \in 1..Len(s) : MatchesAt(p, s, i)}
    IN  IF starts = {}
        THEN [found |-> FALSE, group1 |-> NoDomain]
        ELSE LET i == CHOOSE x \in starts : \A y \in starts : x <= y
                 b == i + Len(p.lit)
             IN  [found |-> TRUE, group1 |-> SubSeq(s, b, RunEnd(s, b, p.cls))]

\* One `for pattern in patterns: ... return f"{prefix}{domain}"` loop from
\* pattern number k on: the tagged capture of the first pattern that matches,
\* NoDomain when the loop ends without a return.
RECURSIVE FirstMatch(_, _, _, _)
FirstMatch(patterns, k, prefix, s) ==
    IF k > Len(patterns)
    THEN NoDomain
    ELSE LET m == Search(patterns[k], s)
         IN  IF m.found THEN prefix \o m.group1 ELSE FirstMatch(patterns, k + 1, prefix, s)

VK_ == <<"v", "k", "_">>
OK_ == <<"o", "k", "_">>
TG_ == <<"t", "g", "_">>

\* extract_domain_from_link(link). None is NoDomain, the empty sequence: no
\* returned f-string is empty, each has a three-character prefix.
extract_domain_from_link(link) ==
    IF link = <<>>
    THEN NoDomain
    ELSE LET l == Lower(Strip(link))
             vk == FirstMatch(patterns_vk, 1, VK_, l)
             ok == FirstMatch(patterns_ok, 1, OK_, l)
             tg == FirstMatch(patterns_tg, 1, TG_, l)
         IN  IF vk # NoDomain THEN vk
             ELSE IF ok # NoDomain THEN ok
             ELSE IF tg # NoDomain THEN tg
             ELSE NoDomain

(***************************************************************************)
(* get_search_texts and get_selected_dates.                                *)
(***************************************************************************)
\* s.split(sep) for a one-character separator: the pieces between separators.
RECURSIVE SplitFrom(_, _, _)
SplitFrom(s, sep, piece) ==
    IF s = <<>>
    THEN <<piece>>
    ELSE IF Head(s) = sep
    THEN <<piece>> \o SplitFrom(Tail(s), sep, <<>>)
    ELSE SplitFrom(Tail(s), sep, Append(piece, Head(s)))
Split(s, sep) == SplitFrom(s, sep, <<>>)

\* get_search_texts, for the content `text` of the text field: the stripped,
\* non-empty pieces between semicolons, in the order typed.
get_search_texts(text) ==
    LET t == Strip(text)
        pieces == Split(t, ";")
        stripped == [i \in 1..Len(pieces) |-> Strip(pieces[i])]
    IN  IF t = <<>> THEN <<>> ELSE SelectSeq(stripped, LAMBDA x : x # <<>>)

\* get_selected_dates with reversed dates returned as they are.
get_selected_dates_NoSwap(start_date, end_date) ==
    IF start_date = end_date
    THEN <<start_date, end_date + 1>>
    ELSE <<start_date, end_date>>

\* get_selected_dates, for the days the two date widgets show. Days are
\* numbered; timedelta(days=1) adds one.
get_selected_dates(start_date, end_date) ==
    IF start_date = end_date
    THEN <<start_date, end_date + 1>>
    ELSE IF start_date > end_date
    THEN <<end_date, start_date + 1>>
    ELSE <<start_date, end_date>>

\* int(time.mktime(date.timetuple())): the first second of the day.
MkTime(day) == day * 86400

(***************************************************************************)
(* search_text_in_posts.                                                   *)
(*                                                                         *)
(* A post is [id, owner_id, date, text]; date is a timestamp in seconds.   *)
(***************************************************************************)
\* search_texts = [t.lower() for t in search_texts]
LowerAll(texts) == [i \in 1..Len(texts) |-> Lower(texts[i])]

\* ', '.join(words)
RECURSIVE Join(_)
Join(words) ==
    IF words = <<>> THEN <<>>
    ELSE IF Len(words) = 1 THEN words[1]
    ELSE words[1] \o <<",", " ">> \o Join(Tail(words))

\* A mutant of found_words: post['text'] is compared without .lower().
found_words_CaseSensitive(post, lowered) ==
    SelectSeq(lowered, LAMBDA word : Contains(word, post.text))

\* found_words = [word for word in search_texts if word in text], with
\* text = post.get('text', '').lower() and search_texts already lowered.
found_words(post, lowered) ==
    SelectSeq(lowered, LAMBDA word : Contains(word, Lower(post.text)))

\* datetime.fromtimestamp(ts).strftime('%d.%m.%Y %H:%M'): the day, the hour
\* and the minute; the seconds are dropped.
FormatDate(ts) ==
    [day |-> ts \div 86400, hour |-> (ts % 86400) \div 3600, minute |-> (ts % 3600) \div 60]

\* The dictionary appended to results for a post with found words.
MatchResult(post, found) ==
    [post_id |-> post.id, owner_id |-> post.owner_id, text |-> post.text,
     date |-> FormatDate(post.date), found_words |-> Join(found)]

\* The state of one call: the posts taken so far, the results, whether the
\* loop has ended and whether it ended through the stop_flag break.
SearchStart == [idx |-> 0, results |-> <<>>, done |-> FALSE, stopped |-> FALSE]

\* One pass through `for post in posts:` with stop_flag read as `stop`: the
\* loop ends when the posts are used up, breaks when stop_flag is set, and
\* otherwise takes the next post and appends its result if words were found.
SearchStep(st, posts, lowered, stop) ==
    IF st.idx >= Len(posts)
    THEN [st EXCEPT !.done = TRUE]
    ELSE IF stop
    THEN [st EXCEPT !.done = TRUE, !.stopped = TRUE]
    ELSE LET post == posts[st.idx + 1]
             found == found_words(post, lowered)
         IN  [st EXCEPT !.idx = st.idx + 1,
                        !.results = IF found # <<>>
                                    THEN Append(st.results, MatchResult(post, found))
                                    ELSE st.results]

(***************************************************************************)
(* get_group_posts.                                                        *)
(***************************************************************************)
\* The state of one call: offset, posts, whether the while loop has ended, and
\* whether it ended in the `except Exception` clause.
WallStart == [offset |-> 0, posts |-> <<>>, done |-> FALSE, failed |-> FALSE]

\* The filter without its upper bound.
InWindow_NoUpperBound(post, start_date, end_date) ==
    MkTime(start_date) <= post.date

\* start_ts <= post['date'] < end_ts
InWindow(post, start_date, end_date) ==
    MkTime(start_date) <= post.date /\ post.date < MkTime(end_date)

\* WallStep with an offset that does not advance.
WallStep_OffsetKept(w, resps, start_date, end_date, stop) ==
    IF ~(w.offset < MAX_POSTS /\ ~stop)
    THEN [w EXCEPT !.done = TRUE]
    ELSE LET r == MakeVkRequest(resps).result
         IN  IF r.status = "VKAPIError"
             THEN [w EXCEPT !.done = TRUE, !.failed = TRUE]
             ELSE IF r.data.kind # "data"
             THEN [w EXCEPT !.done = TRUE]
             ELSE LET items == r.data.items
                      kept == SelectSeq(items, LAMBDA post : InWindow(post, start_date, end_date))
                  IN  [w EXCEPT !.posts = w.posts \o kept,
                                !.done = Len(items) < PAGE_SIZE]

\* One pass through `while offset < MAX_POSTS and not self.stop_flag:` with
\* stop_flag read as `stop` and resps the answers to the HTTP attempts of this
\* pass's make_vk_request call.
WallStep(w, resps, start_date, end_date, stop) ==
    IF ~(w.offset < MAX_POSTS /\ ~stop)
    THEN [w EXCEPT !.done = TRUE]
    ELSE LET r == MakeVkRequest(resps).result
         IN  IF r.status = "VKAPIError"
             THEN [w EXCEPT !.done = TRUE, !.failed = TRUE]
             ELSE IF r.data.kind # "data"
             THEN [w EXCEPT !.done = TRUE]
             ELSE LET items == r.data.items
                      kept == SelectSeq(items, LAMBDA post : InWindow(post, start_date, end_date))
                  IN  [w EXCEPT !.posts = w.posts \o kept,
                                !.offset = w.offset + Len(items),
                                !.done = Len(items) < PAGE_SIZE]

(***************************************************************************)
(* calculate_communities_hash and the run state read at start-up.          *)
(***************************************************************************)
\* hashlib.md5(json.dumps(self.communities, sort_keys=True)).hexdigest(): the
\* digest is taken as collision-free, so it is the list it digests, tagged.
\* NoHash is last_communities_hash = None.
NoHash == [set |-> FALSE, of |-> <<>>]
calculate_communities_hash(comms) == [set |-> TRUE, of |-> comms]

(***************************************************************************)
(* create_report.                                                          *)
(*                                                                         *)
(* A workbook is the sequence of its sheets; a sheet is its title and its  *)
(* rows below the header. A title is [kind, day, n]: kind "date" is the    *)
(* sheet named current_date, kind "unmatched" the sheet named              *)
(* "Не найдено (current_date)", and n > 0 is the number openpyxl's         *)
(* create_sheet appends to a title the workbook already holds.             *)
(***************************************************************************)
DateTitle(day) == [kind |-> "date", day |-> day, n |-> 0]
EmptyTitle(day) == [kind |-> "unmatched", day |-> day, n |-> 0]
NoArtifact == [exists |-> FALSE, sheets |-> <<>>]

\* wb.sheetnames
SheetNames(wb) == {wb[i].title : i \in 1..Len(wb)}
\* del wb[title]
WbDelete(wb, title) == SelectSeq(wb, LAMBDA sh : sh.title # title)
\* wb.create_sheet(title=title), then the rows written to the new sheet
WbCreateSheet(wb, title, rows) ==
    LET free == {k \in 0..Len(wb) : [title EXCEPT !.n = k] \notin SheetNames(wb)}
        n == CHOOSE k \in free : \A j \in free : k <= j
    IN  Append(wb, [title |-> [title EXCEPT !.n = n], rows |-> rows])

\* The rows written for data: one per result of every group, in order.
RECURSIVE MatchRows(_)
MatchRows(data) ==
    IF data = <<>>
    THEN <<>>
    ELSE LET item == Head(data)
         IN  [i \in 1..Len(item.results) |->
                 [original_link |-> item.community.original_link,
                  name |-> item.community.name,
                  link |-> <<item.results[i].owner_id, item.results[i].post_id>>,
                  text |-> item.results[i].text,
                  found_words |-> item.results[i].found_words]]
             \o MatchRows(Tail(data))

\* A mutant of create_report: today's sheet is not deleted before it is created.
create_report_NoDelete(data, empties, comms, last_hash, art, day, io_ok) ==
    IF data = <<>> /\ empties = <<>>
    THEN [path |-> FALSE, artifact |-> art, extended |-> FALSE]
    ELSE LET same_communities ==
                 art.exists /\ last_hash.set
                 /\ calculate_communities_hash(comms) = last_hash
             wb1 == IF same_communities /\ art.exists
                    THEN WbCreateSheet(art.sheets, DateTitle(day), MatchRows(data))
                    ELSE <<[title |-> DateTitle(day), rows |-> MatchRows(data)]>>
             wb2 == WbDelete(wb1, EmptyTitle(day))
             wb3 == IF empties # <<>> THEN WbCreateSheet(wb2, EmptyTitle(day), empties) ELSE wb2
         IN  IF io_ok
             THEN [path |-> TRUE, artifact |-> [exists |-> TRUE, sheets |-> wb3],
                   extended |-> same_communities]
             ELSE [path |-> FALSE, artifact |-> art, extended |-> FALSE]

\* create_report(data, empty_communities) with self.communities = comms,
\* self.last_communities_hash = last_hash, the file at the canonical path
\* art and datetime.now() on day `day`. io_ok is false when load_workbook or
\* wb.save raises: the except clause returns None and the file is as it was.
\* path is whether a file path (not None) is returned, extended whether the
\* existing workbook was loaded.
create_report(data, empties, comms, last_hash, art, day, io_ok) ==
    IF data = <<>> /\ empties = <<>>
    THEN [path |-> FALSE, artifact |-> art, extended |-> FALSE]
    ELSE LET same_communities ==
                 art.exists /\ last_hash.set
                 /\ calculate_communities_hash(comms) = last_hash
             wb1 == IF same_communities /\ art.exists
                    THEN WbCreateSheet(WbDelete(art.sheets, DateTitle(day)),
                                       DateTitle(day), MatchRows(data))
                    ELSE <<[title |-> DateTitle(day), rows |-> MatchRows(data)]>>
             wb2 == WbDelete(wb1, EmptyTitle(day))
             wb3 == IF empties # <<>> THEN WbCreateSheet(wb2, EmptyTitle(day), empties) ELSE wb2
         IN  IF io_ok
             THEN [path |-> TRUE, artifact |-> [exists |-> TRUE, sheets |-> wb3],
                   extended |-> same_communities]
             ELSE [path |-> FALSE, artifact |-> art, extended |-> FALSE]

(***************************************************************************)
(* load_communities_file (the second definition, which the class keeps).   *)
(***************************************************************************)
\* The loop over the rows of the sheet. A row is the pair of its two cells;
\* an empty cell is the empty string.
RECURSIVE LoadRows(_)
LoadRows(rows) ==
    IF rows = <<>>
    THEN <<>>
    ELSE LET row == Head(rows)
             link == Strip(row[1])
             name == Strip(row[2])
             domain == extract_domain_from_link(link)
         IN  (IF domain # NoDomain
              THEN <<[original_link |-> link, domain |-> domain, name |-> name]>>
              ELSE <<>>)
             \o LoadRows(Tail(rows))

\* The files the user may pick: their rows below the header row.
RowVkA == <<<<"h", "t", "t", "p", "s", ":", "/", "/", "v", "k", ".", "c", "o", "m", "/", "a">>, <<"A">>>>
RowVkB == <<<<" ", "C", "l", "u", "b", "7">>, <<"B">>>>
RowTg == <<<<"t", ".", "m", "e", "/", "c", "/">>, <<"T">>>>
RowOk == <<<<"o", "k", ".", "r", "u", "/", "d", "/">>, <<"O">>>>
RowBad == <<<<"?">>, <<"X">>>>
FilePool == {<<RowVkA, RowVkB>>, <<RowTg, RowVkA, RowBad, RowOk>>, <<RowTg>>}

\* What vk_parser_config.json may hold at start-up: nothing, or a hash
\* written by an earlier version of the program.
ConfigHashes == {NoHash} \cup {calculate_communities_hash(LoadRows(f)) : f \in FilePool}

(***************************************************************************)
(* The state after VKParser.__init__, and each component at rest.          *)
(***************************************************************************)
GwIdle == gw_pc = "idle" /\ gw_attempt = 0 /\ gw_trace = <<>> /\ gw_result = NoResult
MIdle ==
    /\ m_pc = "idle" /\ m_posts = <<>> /\ m_texts = <<>>
    /\ m_idx = 0 /\ m_results = <<>> /\ m_stopped = FALSE
RIdle == r_pc = "idle" /\ r_link = <<>> /\ r_domain = NoDomain
AppInit ==
    /\ communities = <<>>
    /\ search_texts = <<>>
    /\ running = FALSE
    /\ stop_flag = FALSE
    /\ last_communities_hash \in ConfigHashes
NoWindow == <<0, 0>>
RunIdle ==
    /\ run_pc = "idle"
    /\ run_targets = <<>>
    /\ window = NoWindow
    /\ futures = <<>>
    /\ yielded = <<>>
    /\ results = <<>>
    /\ empty_communities = <<>>
\* rep_last before any call of create_report. Its fields: whether create_report
\* was called, whether it returned a path, whether it loaded the existing
\* workbook; of the file before the call, whether it existed, whether it held
\* the day's date sheet and unmatched sheet, and its other sheets; whether
\* the file existed and was last saved for the communities of this call; the
\* hash of the communities the file was last saved for; the day of the call;
\* and whether the call repeats the call before it (same day, same
\* communities, same matches and empties, both saved).
NoCall ==
    [called |-> FALSE, path |-> FALSE, extended |-> FALSE,
     existed |-> FALSE, had_date |-> FALSE, had_unmatched |-> FALSE, others |-> <<>>,
     same_writer |-> FALSE, writer_hash |-> NoHash, day |-> 0, repeat |-> FALSE]
RepInit == artifact = NoArtifact /\ today = 1 /\ rep_last = NoCall

DatesIdle == dates = [pc |-> "idle", start_date |-> 0, end_date |-> 0, out |-> NoWindow]
\* No get_group_posts call yet. w is the state of the call, log the wall.get
\* requests it made (offset, count and the number of items of the answer, -1
\* for none), fetched the items of the answered pages in page order.
WallIdle ==
    wall = [pc |-> "idle", w |-> WallStart, log |-> <<>>, fetched |-> <<>>,
            start_date |-> 0, end_date |-> 0]
\* No get_telegram_posts call yet. msgs is what iter_messages yields, idx the
\* number of messages the loop has taken, broke whether it left through the
\* break, failed whether the call ended in an except clause.
TgStart == [idx |-> 0, posts |-> <<>>, done |-> FALSE, broke |-> FALSE, failed |-> FALSE]
TgIdle ==
    tg_fetch = [pc |-> "idle", msgs |-> <<>>, it |-> TgStart, start_date |-> 0, end_date |-> 0]
\* TelegramParser.__init__ and no dialog: client is whether
\* telegram_parser.client is set, started whether client.start has succeeded
\* on it; the dialog is closed or open, with its code and password fields
\* shown or hidden and its phone field enabled or not; last is how the
\* client.start of the last submit ended.
AuthInit ==
    auth = [client |-> FALSE, started |-> FALSE, dialog |-> "closed",
            code_shown |-> FALSE, password_shown |-> FALSE, phone_enabled |-> TRUE,
            last |-> "none"]
\* setup_ui: the progress bar at 0 and the status label "Готов к работе".
\* bar is the value of the progress bar, percents the values update_progress
\* has emitted since the last start, counts the numbers of the status
\* emitted with each, status the text of the status label, saved whether
\* the report-saved status was emitted since the last start.
UiInit ==
    ui = [bar |-> 0, percents |-> <<>>, counts |-> <<>>, status |-> "ready", saved |-> FALSE]
\* vk_parser_config.json as load_communities_config finds it at start-up:
\* absent, or holding the path of a target file (a file stands for its path)
\* and the hash of its communities; last_communities_hash is what was read.
NoFile == <<>>
ConfigStates ==
    {[last_communities_file |-> NoFile, last_communities_hash |-> NoHash]} \cup
    {[last_communities_file |-> f,
      last_communities_hash |-> calculate_communities_hash(LoadRows(f))] : f \in FilePool}
ConfigInit == config \in {c \in ConfigStates : c.last_communities_hash = last_communities_hash}
ExtInit == DatesIdle /\ WallIdle /\ TgIdle /\ AuthInit /\ UiInit /\ ConfigInit

Init == GwIdle /\ MIdle /\ RIdle /\ AppInit /\ RunIdle /\ RepInit /\ ExtInit

(***************************************************************************)
(* The gateway: one logical call of make_vk_request after another.         *)
(***************************************************************************)
\* Posts the wall answers with. Dates are seconds; day 1 starts at 86400.
PostA == [id |-> 1, owner_id |-> 7, date |-> 86400 + 3600, text |-> <<"B", "i", "g", " ", "S", "a", "l", "e">>]
PostB == [id |-> 2, owner_id |-> 7, date |-> 86400 + 7200, text |-> <<"n", "e", "w", "s">>]
PostOld == [id |-> 3, owner_id |-> 7, date |-> 3600, text |-> <<"s", "a", "l", "e">>]

\* error codes that are neither fatal nor the rate limit
OTHER_CODES == {1, 10}
GwResponses ==
    {ExcResp, OddResp, DataResp(<<>>), DataResp(<<PostA>>)}
    \cup {ErrResp(c) : c \in FATAL_CODES \cup OTHER_CODES \cup {TOO_MANY_REQUESTS}}

\* make_vk_request is called: the for loop starts at attempt 0.
GwCall ==
    /\ gw_pc \in {"idle", "returned", "raised"}
    /\ gw_pc' = "loop"
    /\ gw_attempt' = 0
    /\ gw_trace' = <<>>
    /\ gw_result' = NoResult
    /\ UNCHANGED <<mVars, rVars, appVars, runVars, repVars>>
    /\ UNCHANGED extVars

\* One iteration of the for loop: the pacing sleep, requests.get answered by
\* resp, and the branch taken on the answer.
GwAttempt(resp) ==
    /\ gw_pc = "loop"
    /\ gw_attempt < MAX_ATTEMPTS
    /\ LET o == AttemptOutcome(gw_attempt, resp)
       IN  /\ gw_trace' = gw_trace \o AttemptEvents(gw_attempt, resp)
           /\ gw_result' = o.result
           /\ gw_pc' = IF o.next = "continue" THEN "loop"
                       ELSE IF o.next = "return" THEN "returned" ELSE "raised"
           /\ gw_attempt' = IF o.next = "continue" THEN gw_attempt + 1 ELSE gw_attempt
    /\ UNCHANGED <<mVars, rVars, appVars, runVars, repVars>>
    /\ UNCHANGED extVars

\* range(MAX_ATTEMPTS) is used up: the raise after the loop.
GwExhausted ==
    /\ gw_pc = "loop"
    /\ gw_attempt >= MAX_ATTEMPTS
    /\ gw_pc' = "raised"
    /\ gw_result' = AttemptsError
    /\ UNCHANGED <<gw_attempt, gw_trace>>
    /\ UNCHANGED <<mVars, rVars, appVars, runVars, repVars>>
    /\ UNCHANGED extVars

GwNext == GwCall \/ (\E resp \in GwResponses : GwAttempt(resp)) \/ GwExhausted

SpecGateway == Init /\ [][GwNext]_vars


\* The positions of the HTTP attempts in the trace of the call.
HttpIdx == {i \in 1..Len(gw_trace) : gw_trace[i].ev = "http"}
GwFinished == gw_pc \in {"returned", "raised"}
\* A transient failure: a transport error, or a remote error that is not fatal.
Transient(resp) ==
    \/ resp.kind = "exception"
    \/ resp.kind = "error" /\ resp.error_code \notin FATAL_CODES
RateLimited(resp) == resp.kind = "error" /\ resp.error_code = TOO_MANY_REQUESTS
Fatal(resp) == resp.kind = "error" /\ resp.error_code \in FATAL_CODES

\* C1: while every answer of a call is a transient failure the call returns no
\* data, and when such a call ends it has made exactly MAX_ATTEMPTS HTTP
\* attempts and raised the VKAPIError whose message carries MAX_ATTEMPTS.
C1_TransientExhausts ==
    (\A i \in HttpIdx : Transient(gw_trace[i].resp)) =>
        /\ gw_pc # "returned"
        /\ gw_result.status # "data"
        /\ GwFinished =>
            /\ gw_pc = "raised"
            /\ Cardinality(HttpIdx) = MAX_ATTEMPTS
            /\ gw_result.status = "VKAPIError"
            /\ gw_result.msg = "attempts"
            /\ gw_result.n = MAX_ATTEMPTS

\* C1 witness: a call that saw a transport error, a rate limit and another
\* remote error, and nothing else, has raised.
C1_Witness ==
    /\ gw_pc = "raised"
    /\ gw_result = AttemptsError
    /\ \A i \in HttpIdx : Transient(gw_trace[i].resp)
    /\ \E i \in HttpIdx : gw_trace[i].resp.kind = "exception"
    /\ \E i \in HttpIdx : RateLimited(gw_trace[i].resp)
    /\ \E i \in HttpIdx : gw_trace[i].resp.error_code \in OTHER_CODES

\* C2: a fatal answer (code 5, 15, 18 or 100), at any attempt, is the last
\* thing the call does: the call has raised the VKAPIError of that code and
\* the trace holds no event after that answer.
C2_FatalRaisesAtOnce ==
    \A i \in HttpIdx :
        Fatal(gw_trace[i].resp) =>
            /\ i = Len(gw_trace)
            /\ gw_pc = "raised"
            /\ gw_result = ApiError(gw_trace[i].resp.error_code)

\* C2 witness: a fatal code 100 at the third attempt, after two transient answers.
C2_Witness ==
    /\ gw_pc = "raised"
    /\ Cardinality(HttpIdx) = MAX_ATTEMPTS
    /\ \E i \in HttpIdx : gw_trace[i].resp = ErrResp(100) /\ gw_trace[i].attempt = MAX_ATTEMPTS - 1

\* C3: a call makes at most MAX_ATTEMPTS HTTP attempts; a rate-limited answer
\* is followed by the extra sleep of 1 + attempt seconds, never by the
\* VKAPIError of a remote error code, and by another HTTP attempt whenever the
\* call ends and the answer was not that of the last attempt; the call
\* returns only the body, without an error field, of its last answer.
C3_BoundedRetries ==
    /\ Cardinality(HttpIdx) <= MAX_ATTEMPTS
    /\ \A i \in HttpIdx :
        RateLimited(gw_trace[i].resp) =>
            /\ i < Len(gw_trace)
            /\ gw_trace[i + 1] = SleepEv((1 + gw_trace[i].attempt) * SECOND)
            /\ (\A j \in HttpIdx : j <= i) => gw_result.msg # "VK API error"
            /\ (GwFinished /\ gw_trace[i].attempt + 1 < MAX_ATTEMPTS) =>
                   \E j \in HttpIdx : j > i /\ gw_trace[j].attempt = gw_trace[i].attempt + 1
    /\ gw_pc = "returned" =>
        /\ HttpIdx # {}
        /\ Len(gw_trace) \in HttpIdx
        /\ gw_trace[Len(gw_trace)].resp.kind \in {"data", "noresponse"}
        /\ gw_result = Returned(gw_trace[Len(gw_trace)].resp)
    /\ gw_result.status = "data" => gw_pc = "returned"

\* C3 witness: data returned by the third attempt after two rate-limited answers.
C3_Witness ==
    /\ gw_pc = "returned"
    /\ gw_result.data.kind = "data"
    /\ Cardinality({i \in HttpIdx : RateLimited(gw_trace[i].resp)}) = MAX_ATTEMPTS - 1


(***************************************************************************)
(* The resolver: extract_domain_from_link called on a link.                *)
(***************************************************************************)
MaxLinkTokens == 3
LinkTokens == {
    <<"v", "k", ".", "c", "o", "m", "/">>,
    <<"c", "l", "u", "b">>,
    <<"o", "k", ".", "r", "u", "/">>,
    <<"g", "r", "o", "u", "p", "/">>,
    <<"p", "r", "o", "f", "i", "l", "e", "/">>,
    <<"t", "o", "p", "i", "c", "/">>,
    <<"t", ".", "m", "e", "/">>,
    <<"t", "g", ".", "m", "e", "/">>,
    <<"h", "t", "t", "p", "s", ":", "/", "/">>,
    <<"a", "b">>,
    <<"7">>,
    <<"/">>,
    <<"?">>,
    <<" ">>,
    <<"A">> }
RECURSIVE LinksOf(_)
LinksOf(n) ==
    IF n = 0
    THEN {<<>>}
    ELSE LET shorter == LinksOf(n - 1)
         IN  shorter \cup {l \o t : l \in shorter, t \in LinkTokens}
LinkPool == LinksOf(MaxLinkTokens)

RCall(link) ==
    /\ r_pc = "idle"
    /\ r_pc' = "called"
    /\ r_link' = link
    /\ r_domain' = NoDomain
    /\ UNCHANGED <<gwVars, mVars, appVars, runVars, repVars>>
    /\ UNCHANGED extVars

RReturn ==
    /\ r_pc = "called"
    /\ r_pc' = "done"
    /\ r_domain' = extract_domain_from_link(r_link)
    /\ UNCHANGED r_link
    /\ UNCHANGED <<gwVars, mVars, appVars, runVars, repVars>>
    /\ UNCHANGED extVars

RNext == (\E link \in LinkPool : RCall(link)) \/ RReturn
SpecResolve == Init /\ [][RNext]_vars

\* Some pattern of the list matches the link.
MatchesAny(patterns, l) == \E k \in 1..Len(patterns) : Search(patterns[k], l).found
\* The VK-style patterns with an explicit marker: all but the bare handle.
ExplicitVk == SubSeq(patterns_vk, 1, Len(patterns_vk) - 1)

\* C10: as claimed. The empty link and the link no recognizer matches resolve
\* to None; the first list with a matching pattern decides the tag, the bare
\* handle counting for VK only when no explicit marker of any platform is
\* found: a link with an OK-style marker and no VK marker is tagged ok_, one
\* with a message-platform marker and no VK or OK marker is tagged tg_.
C10_MarkerDecidesTag ==
    r_pc = "done" =>
        LET l == Lower(Strip(r_link))
            vk == MatchesAny(ExplicitVk, l)
            ok == MatchesAny(patterns_ok, l)
            tg == MatchesAny(patterns_tg, l)
            bare == MatchesAny(patterns_vk, l)
        IN  /\ r_link = <<>> => r_domain = NoDomain
            /\ ~(bare \/ ok \/ tg) => r_domain = NoDomain
            /\ vk => StartsWith(r_domain, VK_)
            /\ (ok /\ ~vk) => StartsWith(r_domain, OK_)
            /\ (tg /\ ~ok /\ ~vk) => StartsWith(r_domain, TG_)
            /\ (bare /\ ~ok /\ ~tg) => StartsWith(r_domain, VK_)

\* The state C10 fails in: a link with an OK-style or message-platform marker
\* and no VK marker has been tagged vk_.
C10_MarkedLinkTaggedVk ==
    /\ r_pc = "done"
    /\ LET l == Lower(Strip(r_link))
       IN  /\ ~MatchesAny(ExplicitVk, l)
           /\ MatchesAny(patterns_ok, l) \/ MatchesAny(patterns_tg, l)
           /\ StartsWith(r_domain, VK_)


(***************************************************************************)
(* The matcher: one call of search_text_in_posts inside a run, with the    *)
(* window's closeEvent free to call stop_parsing while the loop runs.      *)
(***************************************************************************)
MaxMatchPosts == 2
MaxKeywords == 2
\* The keywords get_search_texts may hand over: stripped and non-empty.
KeywordPool == {<<"s", "a", "l", "e">>, <<"S", "a", "l", "e">>, <<"b", "i", "g", " ", "s">>, <<"x">>}
PostC == [id |-> 4, owner_id |-> 7, date |-> 86400 + 60, text |-> <<"S", "A", "L", "E", "?", " ", "n", "o">>]
PostPool == {PostA, PostB, PostC}
\* The non-empty sequences over a set of length at most n.
SeqsUpTo(set, n) == UNION {[1..k -> set] : k \in 1..n}

\* A run is in flight: start_parsing has set running and cleared stop_flag.
InitMatch ==
    /\ GwIdle /\ MIdle /\ RIdle /\ RunIdle /\ RepInit
    /\ communities = <<>>
    /\ search_texts = <<>>
    /\ running = TRUE
    /\ stop_flag = FALSE
    /\ last_communities_hash = NoHash
    /\ ExtInit

\* search_text_in_posts(posts, search_texts) is called.
MCall(posts, texts) ==
    /\ m_pc = "idle"
    /\ m_pc' = "loop"
    /\ m_posts' = posts
    /\ m_texts' = texts
    /\ m_idx' = 0
    /\ m_results' = <<>>
    /\ m_stopped' = FALSE
    /\ UNCHANGED <<gwVars, rVars, appVars, runVars, repVars>>
    /\ UNCHANGED extVars

\* One pass through the for loop, or its end and the return.
MStep ==
    /\ m_pc = "loop"
    /\ LET st == SearchStep([idx |-> m_idx, results |-> m_results, done |-> FALSE,
                             stopped |-> FALSE],
                            m_posts, LowerAll(m_texts), stop_flag)
       IN  /\ m_idx' = st.idx
           /\ m_results' = st.results
           /\ m_stopped' = st.stopped
           /\ m_pc' = IF st.done THEN "done" ELSE "loop"
    /\ UNCHANGED <<m_posts, m_texts>>
    /\ UNCHANGED <<gwVars, rVars, appVars, runVars, repVars>>
    /\ UNCHANGED extVars

\* closeEvent while a run is in flight, answered Yes: stop_parsing().
CloseEvent ==
    /\ running
    /\ ~stop_flag
    /\ stop_flag' = TRUE
    /\ ui' = [ui EXCEPT !.status = "stopping"]
    /\ UNCHANGED <<communities, search_texts, running, last_communities_hash>>
    /\ UNCHANGED <<gwVars, mVars, rVars, runVars, repVars>>
    /\ UNCHANGED <<dates, wall, tg_fetch, auth, config>>

MNext ==
    \/ \E posts \in SeqsUpTo(PostPool, MaxMatchPosts), texts \in SeqsUpTo(KeywordPool, MaxKeywords) :
           MCall(posts, texts)
    \/ MStep
    \/ CloseEvent
SpecMatch == InitMatch /\ [][MNext]_vars

\* The post contains at least one keyword as a case-insensitive substring.
PostMatches(post, texts) ==
    \E k \in 1..Len(texts) : Contains(Lower(texts[k]), Lower(post.text))
\* results holds exactly one result for each matching post of posts, in order.
ResultsAre(res, posts, texts) ==
    LET hits == SelectSeq(posts, LAMBDA post : PostMatches(post, texts))
    IN  /\ Len(res) = Len(hits)
        /\ \A i \in 1..Len(hits) :
               /\ res[i].post_id = hits[i].id
               /\ res[i].owner_id = hits[i].owner_id
               /\ res[i].text = hits[i].text

\* C6 as claimed: the returned results are exactly the matching posts of the
\* input, in input order, whatever else happens.
C6_ResultsOfAllPosts == m_pc = "done" => ResultsAre(m_results, m_posts, m_texts)

\* C6 as amended: the returned results are exactly the matching posts, in
\* order, among the posts the loop took; the loop takes every post unless it
\* broke on a set stop_flag, so with stop_flag unset at the return the results
\* are those of all posts.
C6_ResultsOfPostsTaken ==
    /\ m_idx <= Len(m_posts)
    /\ m_pc \in {"loop", "done"} =>
           ResultsAre(m_results, SubSeq(m_posts, 1, m_idx), m_texts)
    /\ m_pc = "done" =>
        /\ m_stopped => stop_flag /\ m_idx < Len(m_posts)
        /\ ~m_stopped => m_idx = Len(m_posts)
        /\ ~stop_flag => ResultsAre(m_results, m_posts, m_texts)

\* C6 witness: two posts were matched to the end with stop_flag unset, the
\* first has no keyword, the second holds one only up to letter case.
C6_Witness ==
    /\ m_pc = "done"
    /\ ~stop_flag
    /\ Len(m_posts) = 2
    /\ Len(m_results) = 1
    /\ m_results[1].post_id = m_posts[2].id
    /\ ~PostMatches(m_posts[1], m_texts)
    /\ \A k \in 1..Len(m_texts) : ~Contains(m_texts[k], m_posts[2].text)

\* The first occurrences of the elements of a sequence, in order.
RECURSIVE Dedup(_)
Dedup(words) ==
    IF words = <<>>
    THEN <<>>
    ELSE LET rest == Dedup(SubSeq(words, 1, Len(words) - 1))
             last == words[Len(words)]
         IN  IF \E i \in 1..Len(rest) : rest[i] = last THEN rest ELSE Append(rest, last)

\* C7 as claimed: found_words of every result lists the keywords found in the
\* post, in the caller's order, each once.
C7_FoundWordsDeduplicated ==
    m_pc \in {"loop", "done"} =>
        LET hits == SelectSeq(SubSeq(m_posts, 1, m_idx), LAMBDA post : PostMatches(post, m_texts))
        IN  \A i \in 1..Len(m_results) :
                i <= Len(hits) =>
                    LET found == SelectSeq(LowerAll(m_texts),
                                           LAMBDA w : Contains(w, Lower(hits[i].text)))
                    IN  m_results[i].found_words = Join(Dedup(found))

\* The state C7 fails in: a result lists one keyword twice.
C7_KeywordListedTwice ==
    /\ m_pc = "done"
    /\ Len(m_texts) = 2
    /\ Lower(m_texts[1]) = Lower(m_texts[2])
    /\ \E i \in 1..Len(m_results) :
           m_results[i].found_words = Join(<<Lower(m_texts[1]), Lower(m_texts[1])>>)


(***************************************************************************)
(* The report merge: target files are loaded, days pass, and run_parsing   *)
(* calls create_report at the end of a run that was not cancelled.         *)
(***************************************************************************)
MaxDay == 2

\* load_communities_file with the file dialog answered by a readable file.
\* The definition the class keeps neither sets last_communities_hash nor
\* calls save_communities_config.
\* stop_flag is set by closeEvent alone, which then accepts the event: once it
\* is set the window is closed and takes no further input.
LoadCommunitiesFile(file) ==
    /\ ~stop_flag
    /\ communities' = LoadRows(file)
    /\ ui' = [ui EXCEPT !.status = "loaded"]
    /\ UNCHANGED <<search_texts, running, stop_flag, last_communities_hash>>
    /\ UNCHANGED <<gwVars, mVars, rVars, runVars, repVars>>
    /\ UNCHANGED <<dates, wall, tg_fetch, auth, config>>

\* The result run_parsing appends for a community with matching posts, and
\* the entry it appends to empty_communities otherwise.
GroupOf(comm, res) == [community |-> comm, results |-> res]
NO_MATCHES == "no_matches"
\* {'original_link': ..., 'name': ..., 'reason': 'Нет совпадений'}
EmptyOf(comm) ==
    [original_link |-> comm.original_link, name |-> comm.name, reason |-> NO_MATCHES]

\* vk_communities = [comm for comm in self.communities if comm['domain'].startswith('vk_')]
VkCommunities(comms) == SelectSeq(comms, LAMBDA comm : StartsWith(comm.domain, VK_))

\* The arguments run_parsing can pass for the communities comms: the groups
\* of the VK communities in `matched`, the empties of the other VK communities.
ReportArgs(comms, matched) ==
    LET vk == VkCommunities(comms)
        hit == SelectSeq(vk, LAMBDA comm : comm \in matched)
        miss == SelectSeq(vk, LAMBDA comm : comm \notin matched)
    IN  [data |-> [i \in 1..Len(hit) |->
                      GroupOf(hit[i], <<MatchResult(PostA, <<<<"s", "a", "l", "e">>>>)>>)],
         empties |-> [i \in 1..Len(miss) |-> EmptyOf(miss[i])]]

\* The sheets of a workbook with a title of the kind for the day.
SheetsOf(wb, kind, day) ==
    {i \in 1..Len(wb) : wb[i].title.kind = kind /\ wb[i].title.day = day}
\* The sheets of a workbook that are not the day's two sheets.
OtherSheets(wb, day) ==
    SelectSeq(wb, LAMBDA sh : sh.title \notin {DateTitle(day), EmptyTitle(day)})
\* The rows of the day's date sheets and of the day's unmatched sheets.
RowsUnder(wb, title) ==
    LET hit == SelectSeq(wb, LAMBDA sh : sh.title = title)
    IN  [i \in 1..Len(hit) |-> hit[i].rows]
TodayRows(wb, day) ==
    [matches |-> RowsUnder(wb, DateTitle(day)), empties |-> RowsUnder(wb, EmptyTitle(day))]

\* The bookkeeping of one create_report call and its effect on the file.
ReportCall(data, empties, io_ok) ==
    LET r == create_report(data, empties, communities, last_communities_hash,
                           artifact, today, io_ok)
        h == calculate_communities_hash(communities)
    IN  /\ artifact' = r.artifact
        /\ rep_last' =
               [called |-> TRUE, path |-> r.path, extended |-> r.extended,
                existed |-> artifact.exists,
                had_date |-> SheetsOf(artifact.sheets, "date", today) # {},
                had_unmatched |-> SheetsOf(artifact.sheets, "unmatched", today) # {},
                others |-> OtherSheets(artifact.sheets, today),
                same_writer |-> artifact.exists /\ rep_last.writer_hash = h,
                writer_hash |-> IF r.path THEN h ELSE rep_last.writer_hash,
                day |-> today,
                repeat |-> /\ r.path /\ rep_last.path /\ rep_last.day = today
                           /\ rep_last.writer_hash = h
                           /\ TodayRows(artifact.sheets, today)
                                  = [matches |-> <<MatchRows(data)>>,
                                     empties |-> IF empties = <<>> THEN <<>>
                                                 ELSE <<empties>>]]

CreateReportCall(matched, io_ok) ==
    /\ LET args == ReportArgs(communities, matched)
       IN  ReportCall(args.data, args.empties, io_ok)
    /\ UNCHANGED today
    /\ UNCHANGED <<gwVars, mVars, rVars, appVars, runVars>>
    /\ UNCHANGED extVars

\* Midnight passes.
NextDay ==
    /\ today < MaxDay
    /\ today' = today + 1
    /\ UNCHANGED <<artifact, rep_last>>
    /\ UNCHANGED <<gwVars, mVars, rVars, appVars, runVars>>
    /\ UNCHANGED extVars

Range(seq) == {seq[i] : i \in 1..Len(seq)}
RepNext ==
    \/ \E file \in FilePool : LoadCommunitiesFile(file)
    \/ \E matched \in SUBSET Range(VkCommunities(communities)), io_ok \in BOOLEAN :
           CreateReportCall(matched, io_ok)
    \/ NextDay
SpecReport == Init /\ [][RepNext]_vars

\* C8 as claimed, for the calls that save a file: the call extends the
\* existing workbook exactly if a file existed and the hash of the target set
\* of the run that saved it equals the hash of the current target set; an
\* extending call leaves every sheet but today's two as it was; any other call
\* saves a workbook with no sheet of an earlier run.
C8_ExtendsIffSameTargets ==
    (rep_last.called /\ rep_last.path) =>
        /\ rep_last.extended <=> rep_last.same_writer
        /\ rep_last.extended =>
               OtherSheets(artifact.sheets, rep_last.day) = rep_last.others
        /\ ~rep_last.extended =>
               SheetNames(artifact.sheets)
                   \subseteq {DateTitle(rep_last.day), EmptyTitle(rep_last.day)}

\* The state C8 fails in: a file saved for a target set is not extended by
\* the next call for the same target set, and the sheets of the earlier day
\* are gone.
C8_HistoryDiscarded ==
    /\ rep_last.called /\ rep_last.path
    /\ rep_last.same_writer
    /\ ~rep_last.extended
    /\ rep_last.others # <<>>
    /\ OtherSheets(artifact.sheets, rep_last.day) = <<>>

\* C9: no title occurs twice in the saved workbook and no title carries the
\* number create_sheet appends to a title in use; a call that saves leaves
\* exactly one date sheet and at most one unmatched sheet for its day (also
\* when it repeats the call before it).
C9_OneSheetPerDate ==
    /\ \A i, j \in 1..Len(artifact.sheets) :
           i # j => artifact.sheets[i].title # artifact.sheets[j].title
    /\ \A i \in 1..Len(artifact.sheets) : artifact.sheets[i].title.n = 0
    /\ \A d \in 1..MaxDay :
           /\ Cardinality(SheetsOf(artifact.sheets, "date", d)) <= 1
           /\ Cardinality(SheetsOf(artifact.sheets, "unmatched", d)) <= 1
    /\ rep_last.path =>
           /\ artifact.exists
           /\ Cardinality(SheetsOf(artifact.sheets, "date", rep_last.day)) = 1
           /\ Cardinality(SheetsOf(artifact.sheets, "unmatched", rep_last.day)) <= 1

\* C9 witness: the same merge ran twice on the second day and extended the
\* workbook of the first day, which holds that day's sheets still.
C9_Witness ==
    /\ rep_last.repeat
    /\ rep_last.extended
    /\ rep_last.day > 1
    /\ rep_last.had_date /\ rep_last.had_unmatched
    /\ rep_last.others # <<>>
    /\ OtherSheets(artifact.sheets, rep_last.day) = rep_last.others
    /\ RowsUnder(artifact.sheets, DateTitle(rep_last.day)) # <<<<>>>>
    /\ SheetsOf(artifact.sheets, "unmatched", rep_last.day) # {}

(***************************************************************************)
(* A run: start_parsing submits run_parsing, which submits one             *)
(* process_community per VK community, collects the futures as they        *)
(* complete, writes the report and emits parsing_finished.                 *)
(***************************************************************************)
\* What the text field and the two date widgets may hold at the click.
RunTexts == {<<>>, <<" ", "S", "a", "l", "e", ";", " ", "x">>}
RunDates == {<<1, 1>>, <<1, 0>>}
\* What the wall may answer to one attempt during a run.
RunResponses ==
    {ExcResp, ErrResp(5), DataResp(<<PostA, PostB>>), DataResp(<<PostOld>>)}

\* A future of executor.submit(self.process_community, comm, ...): the
\* community, where its call stands, the state of its get_group_posts and
\* search_text_in_posts calls, and its result (<<>> is None).
NewFuture(comm) ==
    [community |-> comm, state |-> "pending", w |-> WallStart, s |-> SearchStart,
     result |-> <<>>]

\* start_parsing without the `if self.running: return` of lines 864-865.
StartParsing_NoRunningCheck(text, start_date, end_date) ==
    /\ ~stop_flag
    /\ search_texts' = get_search_texts(text)
    /\ IF get_search_texts(text) = <<>> \/ communities = <<>>
       THEN UNCHANGED <<running, stop_flag, run_pc, window, ui>>
       ELSE /\ running' = TRUE
            /\ stop_flag' = FALSE
            /\ window' = get_selected_dates(start_date, end_date)
            /\ run_pc' = "submitted"
            /\ ui' = [bar |-> 0, percents |-> <<>>, counts |-> <<>>,
                      status |-> "range", saved |-> FALSE]
    /\ UNCHANGED <<communities, last_communities_hash>>
    /\ UNCHANGED <<run_targets, futures, yielded, results, empty_communities>>
    /\ UNCHANGED <<gwVars, mVars, rVars, repVars>>
    /\ UNCHANGED <<dates, wall, tg_fetch, auth, config>>

\* start_parsing, with the text field holding text and the date widgets
\* showing start_date and end_date.
\* While running is set the call returns at once and changes nothing.
StartParsing(text, start_date, end_date) ==
    /\ ~stop_flag
    /\ IF running
       THEN UNCHANGED vars
       ELSE
        /\ search_texts' = get_search_texts(text)
        /\ IF get_search_texts(text) = <<>> \/ communities = <<>>
           THEN UNCHANGED <<running, stop_flag, run_pc, window, ui>>
           ELSE /\ running' = TRUE
                /\ stop_flag' = FALSE
                /\ window' = get_selected_dates(start_date, end_date)
                /\ run_pc' = "submitted"
                /\ ui' = [bar |-> 0, percents |-> <<>>, counts |-> <<>>,
                          status |-> "range", saved |-> FALSE]
        /\ UNCHANGED <<communities, last_communities_hash>>
        /\ UNCHANGED <<run_targets, futures, yielded, results, empty_communities>>
        /\ UNCHANGED <<gwVars, mVars, rVars, repVars>>
        /\ UNCHANGED <<dates, wall, tg_fetch, auth, config>>

\* run_parsing up to the for loop over as_completed: the futures are submitted.
RunBegin ==
    /\ run_pc = "submitted"
    /\ run_targets' = communities
    /\ LET vk_communities == VkCommunities(communities)
       IN  futures' = [i \in 1..Len(vk_communities) |-> NewFuture(vk_communities[i])]
    /\ yielded' = <<>>
    /\ results' = <<>>
    /\ empty_communities' = <<>>
    /\ run_pc' = "collect"
    /\ UNCHANGED window
    /\ UNCHANGED <<gwVars, mVars, rVars, appVars, repVars>>
    /\ UNCHANGED extVars

\* The futures a worker thread of the executor is running.
Busy == {i \in 1..Len(futures) : futures[i].state \in {"fetch", "match"}}

\* process_community without `if self.stop_flag: return None`.
WorkerStart_NoStopCheck(i) ==
    /\ run_pc \in {"collect", "broke"}
    /\ futures[i].state = "pending"
    /\ Cardinality(Busy) < MAX_WORKERS
    /\ futures' = [futures EXCEPT ![i].state = "fetch"]
    /\ UNCHANGED <<run_pc, run_targets, window, yielded, results, empty_communities>>
    /\ UNCHANGED <<gwVars, mVars, rVars, appVars, repVars>>
    /\ UNCHANGED extVars

\* A free worker takes a pending future: process_community reads stop_flag.
WorkerStart(i) ==
    /\ run_pc \in {"collect", "broke"}
    /\ futures[i].state = "pending"
    /\ Cardinality(Busy) < MAX_WORKERS
    /\ futures' = [futures EXCEPT ![i].state = IF stop_flag THEN "done" ELSE "fetch"]
    /\ UNCHANGED <<run_pc, run_targets, window, yielded, results, empty_communities>>
    /\ UNCHANGED <<gwVars, mVars, rVars, appVars, repVars>>
    /\ UNCHANGED extVars

\* One pass of the while loop of get_group_posts; after the last pass
\* process_community returns None for no posts or goes on to the search.
WorkerFetch(i, resps) ==
    /\ futures[i].state = "fetch"
    /\ LET w == WallStep(futures[i].w, resps, window[1], window[2], stop_flag)
       IN  futures' = [futures EXCEPT ![i].w = w,
                                      ![i].state = IF ~w.done THEN "fetch"
                                                   ELSE IF w.posts = <<>> THEN "done"
                                                   ELSE "match"]
    /\ UNCHANGED <<run_pc, run_targets, window, yielded, results, empty_communities>>
    /\ UNCHANGED <<gwVars, mVars, rVars, appVars, repVars>>
    /\ UNCHANGED extVars

\* One pass of the for loop of search_text_in_posts; after the last pass
\* process_community returns the group, or None for no results.
WorkerMatch(i) ==
    /\ futures[i].state = "match"
    /\ LET st == SearchStep(futures[i].s, futures[i].w.posts, LowerAll(search_texts), stop_flag)
       IN  futures' = [futures EXCEPT
               ![i].s = st,
               ![i].state = IF st.done THEN "done" ELSE "match",
               ![i].result = IF st.done /\ st.results # <<>>
                             THEN <<GroupOf(futures[i].community, st.results)>>
                             ELSE <<>>]
    /\ UNCHANGED <<run_pc, run_targets, window, yielded, results, empty_communities>>
    /\ UNCHANGED <<gwVars, mVars, rVars, appVars, repVars>>
    /\ UNCHANGED extVars

\* int((i / total) * 100) with a progress that falls as futures complete.
Percent_OfRemaining(i, total) == ((total - i) * 100) \div total

\* progress = int((i / total) * 100)
Percent(i, total) == (i * 100) \div total

\* One pass of `for i, future in enumerate(as_completed(futures), 1)`: the
\* break on stop_flag, or the outcome of the future and the two signals.
Collect(i) ==
    /\ run_pc = "collect"
    /\ futures[i].state = "done"
    /\ \A k \in 1..Len(yielded) : yielded[k] # i
    /\ IF stop_flag
       THEN /\ run_pc' = "broke"
            /\ UNCHANGED <<yielded, results, empty_communities, ui>>
       ELSE /\ yielded' = Append(yielded, i)
            /\ IF futures[i].result # <<>>
               THEN /\ results' = Append(results, futures[i].result[1])
                    /\ UNCHANGED empty_communities
               ELSE /\ empty_communities' = Append(empty_communities, EmptyOf(futures[i].community))
                    /\ UNCHANGED results
            /\ LET n == Len(yielded) + 1
                   total == Len(futures)
                   progress == Percent(n, total)
               IN  ui' = [ui EXCEPT
                       !.bar = progress,
                       !.percents = Append(ui.percents, progress),
                       !.counts = Append(ui.counts,
                                         [i |-> n, total |-> total,
                                          found |-> Len(results'),
                                          empty |-> Len(empty_communities')]),
                       !.status = "processed"]
            /\ UNCHANGED run_pc
    /\ UNCHANGED <<run_targets, window, futures>>
    /\ UNCHANGED <<gwVars, mVars, rVars, appVars, repVars>>
    /\ UNCHANGED <<dates, wall, tg_fetch, auth, config>>

\* run_parsing with parsing_finished.emit() after the saved-report status
\* instead of in the finally clause.
RunFinish_EmitAfterReport(io_ok) ==
    /\ \/ run_pc = "broke"
       \/ run_pc = "collect" /\ Len(yielded) = Len(futures)
    /\ \A i \in 1..Len(futures) : futures[i].state = "done"
    /\ IF ~stop_flag
       THEN /\ ReportCall(results, empty_communities, io_ok)
            /\ LET report_path ==
                       create_report(results, empty_communities, communities,
                                     last_communities_hash, artifact, today, io_ok).path
               IN  ui' = IF report_path
                         THEN [ui EXCEPT !.status = "saved", !.saved = TRUE]
                         ELSE ui
       ELSE UNCHANGED <<artifact, rep_last, ui>>
    /\ run_pc' = IF ~stop_flag /\ create_report(results, empty_communities, communities,
                                                last_communities_hash, artifact, today, io_ok).path
                 THEN "finished"
                 ELSE "returned"
    /\ UNCHANGED today
    /\ UNCHANGED <<run_targets, window, futures, yielded, results, empty_communities>>
    /\ UNCHANGED <<gwVars, mVars, rVars, appVars>>
    /\ UNCHANGED <<dates, wall, tg_fetch, auth, config>>

\* The for loop is over, the with block has waited for every future, and the
\* rest of run_parsing runs: the report unless stop_flag, then the
\* parsing_finished signal.
RunFinish(io_ok) ==
    /\ \/ run_pc = "broke"
       \/ run_pc = "collect" /\ Len(yielded) = Len(futures)
    /\ \A i \in 1..Len(futures) : futures[i].state = "done"
    /\ IF ~stop_flag
       THEN /\ ReportCall(results, empty_communities, io_ok)
            /\ LET report_path ==
                       create_report(results, empty_communities, communities,
                                     last_communities_hash, artifact, today, io_ok).path
               IN  ui' = IF report_path
                         THEN [ui EXCEPT !.status = "saved", !.saved = TRUE]
                         ELSE ui
       ELSE UNCHANGED <<artifact, rep_last, ui>>
    /\ run_pc' = "finished"
    /\ UNCHANGED today
    /\ UNCHANGED <<run_targets, window, futures, yielded, results, empty_communities>>
    /\ UNCHANGED <<gwVars, mVars, rVars, appVars>>
    /\ UNCHANGED <<dates, wall, tg_fetch, auth, config>>

\* on_parsing_finished. run_parsing has returned by now and its locals are gone.
OnParsingFinished ==
    /\ run_pc = "finished"
    /\ running' = FALSE
    /\ run_pc' = "idle"
    /\ run_targets' = <<>>
    /\ window' = NoWindow
    /\ futures' = <<>>
    /\ yielded' = <<>>
    /\ results' = <<>>
    /\ empty_communities' = <<>>
    /\ ui' = [ui EXCEPT !.bar = 100,
                        !.percents = Append(ui.percents, 100),
                        !.status = IF ~stop_flag THEN "finished" ELSE ui.status]
    /\ UNCHANGED <<communities, search_texts, stop_flag, last_communities_hash>>
    /\ UNCHANGED <<gwVars, mVars, rVars, repVars>>
    /\ UNCHANGED <<dates, wall, tg_fetch, auth, config>>

\* The user picks a file between runs.
RunNext ==
    \/ \E file \in FilePool : ~running /\ LoadCommunitiesFile(file)
    \/ \E text \in RunTexts, d \in RunDates : StartParsing(text, d[1], d[2])
    \/ RunBegin
    \/ \E i \in 1..Len(futures) : WorkerStart(i)
    \/ \E i \in 1..Len(futures), resps \in [1..MAX_ATTEMPTS -> RunResponses] : WorkerFetch(i, resps)
    \/ \E i \in 1..Len(futures) : WorkerMatch(i)
    \/ \E i \in 1..Len(futures) : Collect(i)
    \/ \E io_ok \in BOOLEAN : RunFinish(io_ok)
    \/ OnParsingFinished
    \/ CloseEvent
\* The program starts with no vk_parser_config.json.
InitRun == Init /\ last_communities_hash = NoHash
SpecRun == InitRun /\ [][RunNext]_vars

\* The run is over and was not cancelled.
RunCompleted == run_pc = "finished" /\ ~stop_flag
\* The number of outcomes the run recorded for a community.
OutcomesFor(comm) ==
    Cardinality({i \in 1..Len(results) : results[i].community = comm})
    + Cardinality({j \in 1..Len(empty_communities) :
                       /\ empty_communities[j].original_link = comm.original_link
                       /\ empty_communities[j].name = comm.name})

\* C4 as claimed: a run that was not cancelled has recorded exactly one
\* outcome for each community of the loaded list, a match group or an empty,
\* and the groups and the empties together are as many as the communities.
C4_OneOutcomePerTarget ==
    RunCompleted =>
        /\ \A k \in 1..Len(run_targets) : OutcomesFor(run_targets[k]) = 1
        /\ Len(results) + Len(empty_communities) = Len(run_targets)

\* The state C4 fails in: the run is over, the VK community of the list has
\* its outcome, the Telegram and the OK community have none.
C4_TargetWithoutOutcome ==
    /\ RunCompleted
    /\ \E k \in 1..Len(run_targets) :
           StartsWith(run_targets[k].domain, VK_) /\ OutcomesFor(run_targets[k]) = 1
    /\ \E k \in 1..Len(run_targets) :
           StartsWith(run_targets[k].domain, TG_) /\ OutcomesFor(run_targets[k]) = 0
    /\ \E k \in 1..Len(run_targets) :
           StartsWith(run_targets[k].domain, OK_) /\ OutcomesFor(run_targets[k]) = 0

\* C5 as claimed: in a run that was not cancelled every future was processed
\* and collected, and a community whose fetch failed has an empty whose
\* reason is not the no-matches reason.
C5_FailureGivesFetchErrorOutcome ==
    RunCompleted =>
        /\ \A i \in 1..Len(futures) :
               futures[i].state = "done" /\ \E k \in 1..Len(yielded) : yielded[k] = i
        /\ \A i \in 1..Len(futures) :
               futures[i].w.failed =>
                   \E j \in 1..Len(empty_communities) :
                       /\ empty_communities[j].original_link = futures[i].community.original_link
                       /\ empty_communities[j].reason # NO_MATCHES

\* The state C5 fails in: the fetch of one community failed and its empty
\* says no matches, while the other community has its match group.
C5_FailureRecordedAsNoMatches ==
    /\ RunCompleted
    /\ \E i \in 1..Len(futures) :
           /\ futures[i].w.failed
           /\ \E j \in 1..Len(empty_communities) :
                  /\ empty_communities[j].original_link = futures[i].community.original_link
                  /\ empty_communities[j].reason = NO_MATCHES
    /\ \E i \in 1..Len(futures) :
           /\ ~futures[i].w.failed
           /\ \E j \in 1..Len(results) : results[j].community = futures[i].community


(***************************************************************************)
(* get_selected_dates, called for every pair of days of the date widgets.  *)
(***************************************************************************)
MaxDate == 9

\* The date widgets show a pair of days; nothing else has happened.
InitDates ==
    /\ GwIdle /\ MIdle /\ RIdle /\ AppInit /\ RunIdle /\ RepInit
    /\ last_communities_hash = NoHash
    /\ WallIdle /\ TgIdle /\ AuthInit /\ UiInit /\ ConfigInit
    /\ dates \in {[pc |-> "ready", start_date |-> a, end_date |-> b, out |-> NoWindow] :
                     a \in 0..MaxDate, b \in 0..MaxDate}

\* get_selected_dates returns.
GetSelectedDates ==
    /\ dates.pc = "ready"
    /\ dates' = [dates EXCEPT !.pc = "done",
                              !.out = get_selected_dates(dates.start_date, dates.end_date)]
    /\ UNCHANGED <<gwVars, mVars, rVars, appVars, runVars, repVars>>
    /\ UNCHANGED <<wall, tg_fetch, auth, ui, config>>

DatesNext == GetSelectedDates
SpecDates == InitDates /\ [][DatesNext]_vars

\* C11: the returned window has start <= end; equal dates give (start,
\* start + 1 day), reversed dates give (end, start + 1 day), dates in order
\* are returned as they are; (1, 1) gives (1, 2) and (5, 1) gives (1, 6).
C11_WindowNormalised ==
    dates.pc = "done" =>
        LET a == dates.start_date
            b == dates.end_date
        IN  /\ dates.out[1] <= dates.out[2]
            /\ a = b => dates.out = <<a, a + 1>>
            /\ a > b => dates.out = <<b, a + 1>>
            /\ a < b => dates.out = <<a, b>>
            /\ (a = 1 /\ b = 1) => dates.out = <<1, 2>>
            /\ (a = 5 /\ b = 1) => dates.out = <<1, 6>>

\* C11 witness: the call for the reversed pair (5, 1) has returned (1, 6).
C11_Witness ==
    /\ dates.pc = "done"
    /\ dates.start_date = 5 /\ dates.end_date = 1
    /\ dates.out = <<1, 6>>


\* C12: while a run is in flight one progress and one status have been
\* emitted for each future the loop has taken; the k-th carries the count k
\* of the total and the percentage of k in the total, and its numbers of
\* found and empty communities add up to k; the emitted percentages, the
\* final 100 of on_parsing_finished included, never fall and lie in 0..100.
C12_ProgressMonotone ==
    /\ run_pc \in {"collect", "broke", "finished"} =>
           /\ Len(ui.counts) = Len(yielded)
           /\ \A k \in 1..Len(ui.counts) : ui.counts[k].total = Len(futures)
    /\ Len(ui.counts) <= Len(ui.percents)
    /\ \A k \in 1..Len(ui.counts) :
           /\ ui.counts[k].i = k
           /\ ui.counts[k].found + ui.counts[k].empty = k
           /\ ui.percents[k] * ui.counts[k].total <= 100 * k
           /\ 100 * k < (ui.percents[k] + 1) * ui.counts[k].total
    /\ \A k \in 1..Len(ui.percents) :
           /\ ui.percents[k] \in 0..100
           /\ k > 1 => ui.percents[k - 1] <= ui.percents[k]

\* C12 witness: two futures completed in the reverse of their submission
\* order, one with matches and one without; 50 and 100 were emitted.
C12_Witness ==
    /\ run_pc = "finished"
    /\ yielded = <<2, 1>>
    /\ ui.percents = <<50, 100>>
    /\ ui.counts[2].found = 1 /\ ui.counts[2].empty = 1


MaxWallDay == 2

\* 'count': min(100, MAX_POSTS - offset)
PageCount(offset) == IF MAX_POSTS - offset < PAGE_SIZE THEN MAX_POSTS - offset ELSE PAGE_SIZE

\* A page of as many items as were asked for: an old post, then recent ones.
FullPage == [i \in 1..PAGE_SIZE |-> IF i = 1 THEN PostOld ELSE IF i = 2 THEN PostA ELSE PostB]
\* What the wall may answer to one attempt.
WallResponses ==
    {ExcResp, ErrResp(5), OddResp, DataResp(<<>>), DataResp(<<PostOld, PostA>>),
     DataResp(<<PostA, PostOld, PostB>>), DataResp(FullPage)}

\* get_group_posts('vk_...', start_date, end_date) is called.
WallCall(start_date, end_date) ==
    /\ wall.pc \in {"idle", "done"}
    /\ wall' = [pc |-> "loop", w |-> WallStart, log |-> <<>>, fetched |-> <<>>,
                start_date |-> start_date, end_date |-> end_date]
    /\ UNCHANGED <<gwVars, mVars, rVars, appVars, runVars, repVars>>
    /\ UNCHANGED <<dates, tg_fetch, auth, ui, config>>

\* One pass of the while loop, the answers to the attempts of its
\* make_vk_request being resps; after the last pass the call returns posts.
WallPass(resps) ==
    /\ wall.pc = "loop"
    /\ LET w == WallStep(wall.w, resps, wall.start_date, wall.end_date, stop_flag)
           asked == wall.w.offset < MAX_POSTS /\ ~stop_flag
           r == MakeVkRequest(resps).result
           answered == r.status # "VKAPIError" /\ r.data.kind = "data"
       IN  wall' = [wall EXCEPT
               !.pc = IF w.done THEN "done" ELSE "loop",
               !.w = w,
               !.log = IF asked
                       THEN Append(wall.log,
                                   [offset |-> wall.w.offset,
                                    count |-> PageCount(wall.w.offset),
                                    got |-> IF answered THEN Len(r.data.items) ELSE -1])
                       ELSE wall.log,
               !.fetched = IF asked /\ answered
                           THEN wall.fetched \o r.data.items
                           ELSE wall.fetched]
    /\ UNCHANGED <<gwVars, mVars, rVars, appVars, runVars, repVars>>
    /\ UNCHANGED <<dates, tg_fetch, auth, ui, config>>

WallNext ==
    \/ \E a \in 0..MaxWallDay, b \in 0..MaxWallDay :
           WallCall(get_selected_dates(a, b)[1], get_selected_dates(a, b)[2])
    \/ \E resps \in [1..MAX_ATTEMPTS -> WallResponses] : WallPass(resps)
    \/ CloseEvent
SpecWall == InitMatch /\ [][WallNext]_vars
\* The worker thread of the call is scheduled.
SpecWallFair == SpecWall /\ WF_vars(\E resps \in [1..MAX_ATTEMPTS -> WallResponses] : WallPass(resps))


\* The requests of the call so far are for at most a page each, at strictly
\* increasing offsets; the offset is the number of items fetched, which is at
\* most MAX_POSTS; and every request but the last was answered by a full page.
WallBounded ==
    /\ \A k \in 1..Len(wall.log) :
           /\ wall.log[k].count \in 1..PAGE_SIZE
           /\ k > 1 => wall.log[k - 1].offset < wall.log[k].offset
           /\ k < Len(wall.log) => wall.log[k].got = PAGE_SIZE
    /\ wall.w.offset = Len(wall.fetched)
    /\ Len(wall.fetched) <= MAX_POSTS
\* A pass that finds the cap reached or the cancellation flag set makes no
\* request and ends the loop; a pass whose page is short ends the loop.
WallStops ==
    /\ (wall.pc = "loop" /\ wall' # wall /\ (stop_flag \/ wall.w.offset >= MAX_POSTS)) =>
           wall'.pc = "done" /\ wall'.log = wall.log
    /\ (wall.pc = "loop" /\ Len(wall'.log) > Len(wall.log)
        /\ wall'.log[Len(wall'.log)].got < PAGE_SIZE) => wall'.pc = "done"

\* C14: the pagination loop of every call ends; its requests ask for at most
\* 100 items at strictly increasing offsets; it stops at a short page, at the
\* cap, and at a loop boundary where the cancellation flag is set; at most
\* MAX_POSTS items are fetched.
C14_PaginationTerminates ==
    /\ []WallBounded
    /\ [][WallStops]_vars
    /\ (wall.pc = "loop") ~> (wall.pc = "done")

\* C14 witness: a full page was fetched, the cap ended the loop at the next
\* boundary, and MAX_POSTS items were fetched.
C14_Witness ==
    /\ wall.pc = "done"
    /\ Len(wall.log) = 1
    /\ wall.log[1].got = PAGE_SIZE
    /\ Len(wall.fetched) = MAX_POSTS
    /\ ~stop_flag


\* C15: the posts of the call are, in page order, exactly the items of the
\* answered pages with start_ts <= date < end_ts, during the call and when it
\* has returned, whether or not its last request failed.
C15_PostsAreFetchedInWindow ==
    wall.w.posts =
        SelectSeq(wall.fetched,
                  LAMBDA post : /\ wall.start_date * 86400 <= post.date
                                /\ post.date < wall.end_date * 86400)

\* C15 witness: the call has returned the first and the third post of a
\* page whose second post is older than the window.
C15_Witness ==
    /\ wall.pc = "done"
    /\ wall.fetched = <<PostA, PostOld, PostB>>
    /\ wall.w.posts = <<PostA, PostB>>


(***************************************************************************)
(* The Telegram client: get_telegram_posts, the authentication dialog and  *)
(* TelegramParser.get_channel_posts.                                       *)
(***************************************************************************)
MaxMessages == 3
MaxTgDay == 2

\* Messages of a channel: id, timestamp and text.
MsgNew == [id |-> 30, date |-> 2 * 86400 + 60, text |-> <<"s", "a", "l", "e">>]
MsgMid == [id |-> 20, date |-> 86400 + 60, text |-> <<"n", "e", "w", "s">>]
MsgOld == [id |-> 10, date |-> 60, text |-> <<>>]
MessagePool == {MsgNew, MsgMid, MsgOld}

\* The post get_channel_posts builds for a message.
TgPost(message) ==
    [text |-> message.text, date |-> FormatDate(message.date), id |-> message.id]

\* One pass of `async for message in ...iter_messages(entity)` that skips a
\* message older than the window instead of leaving the loop.
TgStep_NoBreak(it, msgs, start_date, end_date) ==
    IF it.idx >= Len(msgs)
    THEN [it EXCEPT !.done = TRUE]
    ELSE LET message == msgs[it.idx + 1]
         IN  [it EXCEPT !.idx = it.idx + 1,
                        !.posts = IF /\ MkTime(start_date) <= message.date
                                     /\ message.date < MkTime(end_date)
                                  THEN Append(it.posts, TgPost(message))
                                  ELSE it.posts]

\* One pass of `async for message in self.client.iter_messages(entity)`: the
\* end of the messages, the break at a message older than start_ts, or the
\* next message taken and appended if it lies in the window.
TgStep(it, msgs, start_date, end_date) ==
    IF it.idx >= Len(msgs)
    THEN [it EXCEPT !.done = TRUE]
    ELSE LET message == msgs[it.idx + 1]
         IN  IF message.date < MkTime(start_date)
             THEN [it EXCEPT !.done = TRUE, !.broke = TRUE]
             ELSE [it EXCEPT !.idx = it.idx + 1,
                             !.posts = IF /\ MkTime(start_date) <= message.date
                                          /\ message.date < MkTime(end_date)
                                       THEN Append(it.posts, TgPost(message))
                                       ELSE it.posts]

\* How client.start may end: it returns, or raises for an invalid phone
\* number, for a session that needs the 2FA password, or for anything else.
StartOutcomes == {"ok", "bad_phone", "need_password", "error"}

\* TelegramParser.auth: the client is created and kept, then started; every
\* exception of client.start is caught and gives False.
TelegramAuth(outcome) == [client |-> TRUE, started |-> outcome = "ok", result |-> outcome = "ok"]

\* get_telegram_posts('tg_...', start_date, end_date) is called, the channel
\* holding msgs: without a client the authentication dialog opens, its code
\* and password fields hidden; with one the fetch starts.
TgGetPosts(msgs, start_date, end_date) ==
    /\ tg_fetch.pc = "idle"
    /\ auth.dialog = "closed"
    /\ tg_fetch' = [pc |-> IF auth.client THEN "loop" ELSE "auth", msgs |-> msgs,
                    it |-> TgStart, start_date |-> start_date, end_date |-> end_date]
    /\ auth' = IF auth.client
               THEN auth
               ELSE [auth EXCEPT !.dialog = "open", !.code_shown = FALSE,
                                 !.password_shown = FALSE,
                                 !.phone_enabled = TRUE, !.last = "none"]
    /\ UNCHANGED <<gwVars, mVars, rVars, appVars, runVars, repVars>>
    /\ UNCHANGED <<dates, wall, ui, config>>

\* handle_submit: the submit button of the dialog, with the phone field
\* empty or not and client.start ending in outcome.
AuthSubmit(phone_empty, outcome) ==
    /\ auth.dialog = "open"
    /\ phone_empty => auth.phone_enabled
    /\ IF phone_empty
       THEN UNCHANGED <<auth, tg_fetch>>
       ELSE LET a == TelegramAuth(outcome)
            IN  /\ auth' = [auth EXCEPT
                       !.client = a.client,
                       !.started = a.started,
                       !.last = outcome,
                       !.dialog = IF a.result THEN "closed" ELSE "open",
                       !.code_shown = IF a.result THEN auth.code_shown ELSE TRUE,
                       !.phone_enabled = IF ~a.result /\ ~auth.code_shown
                                         THEN FALSE ELSE auth.phone_enabled]
                /\ tg_fetch' = IF a.result THEN [tg_fetch EXCEPT !.pc = "loop"] ELSE tg_fetch
    /\ UNCHANGED <<gwVars, mVars, rVars, appVars, runVars, repVars>>
    /\ UNCHANGED <<dates, wall, ui, config>>

\* The cancel button: the dialog is rejected and get_telegram_posts returns [].
AuthCancel ==
    /\ auth.dialog = "open"
    /\ auth' = [auth EXCEPT !.dialog = "closed"]
    /\ tg_fetch' = [tg_fetch EXCEPT !.pc = "done", !.it = [TgStart EXCEPT !.done = TRUE]]
    /\ UNCHANGED <<gwVars, mVars, rVars, appVars, runVars, repVars>>
    /\ UNCHANGED <<dates, wall, ui, config>>

\* One pass of the loop of get_channel_posts on a started client.
TgIterate ==
    /\ tg_fetch.pc = "loop"
    /\ auth.started
    /\ LET it == TgStep(tg_fetch.it, tg_fetch.msgs, tg_fetch.start_date, tg_fetch.end_date)
       IN  tg_fetch' = [tg_fetch EXCEPT !.it = it, !.pc = IF it.done THEN "done" ELSE "loop"]
    /\ UNCHANGED <<gwVars, mVars, rVars, appVars, runVars, repVars>>
    /\ UNCHANGED <<dates, wall, auth, ui, config>>

\* get_entity or iter_messages raises: the except clause logs, and the posts
\* so far are returned.
TgFail ==
    /\ tg_fetch.pc = "loop"
    /\ tg_fetch' = [tg_fetch EXCEPT !.pc = "done", !.it.done = TRUE, !.it.failed = TRUE]
    /\ UNCHANGED <<gwVars, mVars, rVars, appVars, runVars, repVars>>
    /\ UNCHANGED <<dates, wall, auth, ui, config>>

\* get_telegram_posts has returned its posts to its caller.
TgReturn ==
    /\ tg_fetch.pc = "done"
    /\ tg_fetch' = [pc |-> "idle", msgs |-> <<>>, it |-> TgStart, start_date |-> 0, end_date |-> 0]
    /\ UNCHANGED <<gwVars, mVars, rVars, appVars, runVars, repVars>>
    /\ UNCHANGED <<dates, wall, auth, ui, config>>

\* The windows get_selected_dates gives for the days of the range.
TgWindows == {get_selected_dates(a, b) : a \in 0..MaxTgDay, b \in 0..MaxTgDay}
TgNext ==
    \/ \E msgs \in SeqsUpTo(MessagePool, MaxMessages), win \in TgWindows :
           TgGetPosts(msgs, win[1], win[2])
    \/ TgReturn
    \/ \E phone_empty \in BOOLEAN, outcome \in StartOutcomes : AuthSubmit(phone_empty, outcome)
    \/ AuthCancel
    \/ TgIterate
    \/ TgFail
SpecTelegram == InitRun /\ [][TgNext]_vars


\* The messages of the window among the first n messages, as posts.
TgInWindow(msgs, n, start_date, end_date) ==
    LET seen == SubSeq(msgs, 1, n)
        hit == SelectSeq(seen, LAMBDA message : /\ start_date * 86400 <= message.date
                                                /\ message.date < end_date * 86400)
    IN  [i \in 1..Len(hit) |->
            [text |-> hit[i].text, date |-> FormatDate(hit[i].date), id |-> hit[i].id]]

\* C16: the loop takes no message at or after the first one older than the
\* window start; the posts are exactly the messages taken that lie in the
\* window, in iteration order; and a call that returns without an exception
\* has taken every message before the first too-old one.
C16_StopsAtFirstOldMessage ==
    LET it == tg_fetch.it
        msgs == tg_fetch.msgs
    IN  /\ \A k \in 1..it.idx : msgs[k].date >= tg_fetch.start_date * 86400
        /\ it.posts = TgInWindow(msgs, it.idx, tg_fetch.start_date, tg_fetch.end_date)
        /\ (tg_fetch.pc = "done" /\ auth.started /\ ~it.failed) =>
               \/ it.idx = Len(msgs)
               \/ msgs[it.idx + 1].date < tg_fetch.start_date * 86400

\* C16 witness: the call stopped at the old second message and returned the
\* first message alone, though the third lies in the window.
C16_Witness ==
    /\ tg_fetch.pc = "done"
    /\ tg_fetch.msgs = <<MsgNew, MsgOld, MsgMid>>
    /\ tg_fetch.start_date = 1 /\ tg_fetch.end_date = 3
    /\ tg_fetch.it.broke
    /\ tg_fetch.it.idx = 1
    /\ Len(tg_fetch.it.posts) = 1 /\ tg_fetch.it.posts[1].id = MsgNew.id


\* The state of the authentication machine, as the program holds it:
\* get_telegram_posts takes the session for authenticated when the client is
\* set, and the dialog awaits the password or the code when it shows their
\* fields.
AuthState ==
    IF auth.client /\ auth.dialog = "closed" THEN "Authenticated"
    ELSE IF auth.dialog = "open" /\ auth.password_shown THEN "AwaitingTwoFactor"
    ELSE IF auth.dialog = "open" /\ auth.code_shown THEN "AwaitingCode"
    ELSE "Unauthenticated"

\* C17: the session is Authenticated only after an attempt has succeeded; a
\* submit with an invalid phone number leaves the phone field open for a new
\* number; a submit on a session that needs the secondary password moves the
\* machine to AwaitingTwoFactor.
C17_AuthStateMachine ==
    [][ /\ (AuthState' = "Authenticated") => auth'.started
        /\ (auth' # auth /\ auth'.last = "bad_phone" /\ auth'.dialog = "open")
               => (AuthState' = "Unauthenticated" /\ auth'.phone_enabled)
        /\ (auth' # auth /\ auth'.last = "need_password" /\ auth'.dialog = "open")
               => AuthState' = "AwaitingTwoFactor" ]_vars

\* C17 failing state: after a submit that failed on the phone number and a
\* cancel, the next fetch runs on the client that was never started.
C17_Witness ==
    /\ tg_fetch.pc = "loop"
    /\ AuthState = "Authenticated"
    /\ auth.last = "bad_phone"
    /\ ~auth.started


\* The run that is ending was not cancelled, so line 924 called create_report
\* in it, and the call failed: rep_last is that call.
ReportFailed == run_pc = "finished" /\ ~stop_flag /\ rep_last.called /\ ~rep_last.path

\* C18: when create_report fails in a run, the last status of the run is
\* neither the saved-report status nor the plain completion status, and no
\* saved-report status is emitted in the run.
C18_FailedReportEndsWithError ==
    [][ (ReportFailed /\ run_pc' = "idle") =>
            /\ ui'.status \notin {"finished", "saved"}
            /\ ~ui'.saved ]_vars

\* C18 failing state: a run whose report failed has ended, and the status the
\* user is left with is the plain completion message.
C18_Witness ==
    /\ run_pc = "idle" /\ ~running /\ ~stop_flag
    /\ rep_last.called /\ ~rep_last.path
    /\ ui.status = "finished"
    /\ ~ui.saved
    /\ Len(ui.counts) > 0


\* C19: every successful load of a target file writes the persisted state,
\* which then holds the path of the file and the hash of the communities
\* just loaded, and last_communities_hash is that hash.
C19_ConfigWrittenAfterLoad ==
    [][ \A file \in FilePool :
            LoadCommunitiesFile(file) =>
                /\ config'.last_communities_file = file
                /\ config'.last_communities_hash = calculate_communities_hash(communities')
                /\ last_communities_hash' = calculate_communities_hash(communities') ]_vars

\* C19 failing state: a file with two communities was loaded and neither the
\* persisted state nor last_communities_hash holds their hash.
C19_Witness ==
    /\ ui.status = "loaded"
    /\ Len(communities) = 2
    /\ config.last_communities_hash # calculate_communities_hash(communities)
    /\ config.last_communities_file = NoFile
    /\ last_communities_hash # calculate_communities_hash(communities)


\* C20: at most one run is active. running is set exactly while a run is
\* between its start and its finished callback; while it is set a start
\* request changes nothing, so the run in flight keeps its keywords and
\* window and no run is submitted; a run is submitted only from the state
\* the finished callback of the run before it left; and a start request
\* rejected for missing keywords or an empty target list leaves running,
\* stop_flag and the progress state unchanged.
C20_AtMostOneRun ==
    /\ [](running <=> run_pc # "idle")
    /\ [][ /\ running => /\ search_texts' = search_texts
                         /\ run_pc' # "idle" => window' = window
                         /\ run_pc' = "submitted" => run_pc = "submitted"
           /\ (run_pc # "idle" /\ run_pc' = "idle") => (run_pc = "finished" /\ ~running')
           /\ \A text \in RunTexts, d \in RunDates :
                  (/\ StartParsing(text, d[1], d[2])
                   /\ ~running
                   /\ get_search_texts(text) = <<>> \/ communities = <<>>)
                      => UNCHANGED <<running, stop_flag, run_pc, ui>> ]_vars

\* C20 witness: a second run has been submitted after the first one wrote its
\* report and its finished callback ran.
C20_Witness ==
    /\ running /\ run_pc = "submitted"
    /\ rep_last.called
    /\ ui.status = "range" /\ ui.bar = 0


(***************************************************************************)
(* Progress of a run.  The threads of the two executors are scheduled, so  *)
(* every enabled step of run_parsing and of a worker is taken in time.     *)
(* The slot on_parsing_finished is run by the event loop of the GUI        *)
(* thread, which runs for as long as the window is open: closeEvent        *)
(* answered Yes accepts the event after stop_parsing(), the last window    *)
(* closes and app.exec_() returns, so a signal queued after that is not    *)
(* delivered in time or at all.                                            *)
(***************************************************************************)
SpecRunFair ==
    /\ SpecRun
    /\ WF_vars(RunBegin)
    /\ WF_vars(\E i \in 1..Len(futures) : WorkerStart(i))
    /\ WF_vars(\E i \in 1..Len(futures), resps \in [1..MAX_ATTEMPTS -> RunResponses] :
                   WorkerFetch(i, resps))
    /\ WF_vars(\E i \in 1..Len(futures) : WorkerMatch(i))
    /\ WF_vars(\E i \in 1..Len(futures) : Collect(i))
    /\ WF_vars(\E io_ok \in BOOLEAN : RunFinish(io_ok))
    /\ WF_vars(~stop_flag /\ OnParsingFinished)

\* C21 as stated: every started run ends with the running flag reset, on the
\* cancellation path like on every other.
C21_EveryRunIsReset == running ~> ~running


\* C21: every started run_parsing ends, emitting parsing_finished on every
\* path, once, when all its worker tasks have ended; while the window is
\* open the slot then resets running, every run locals gone, and the program
\* is ready for a new start request. A run cancelled by closing the window
\* ends the same way, but nothing resets its running flag.
C21_EveryRunFinishes ==
    /\ (run_pc = "submitted") ~> (run_pc = "finished")
    /\ running ~> (~running \/ stop_flag)
    /\ [][ /\ (run_pc' = "finished" /\ run_pc # "finished") =>
                  /\ run_pc \in {"collect", "broke"}
                  /\ \A i \in 1..Len(futures) : futures[i].state = "done"
           /\ (run_pc \in {"collect", "broke"} /\ run_pc' # run_pc) =>
                  run_pc' \in {"broke", "finished"}
           /\ (run_pc = "finished" /\ run_pc' # "finished") =>
                  /\ ~running' /\ run_pc' = "idle" /\ futures' = <<>>
                  /\ stop_flag' = stop_flag ]_vars

\* C21 witness: a run of two communities, cancelled after its first outcome
\* was collected, has emitted parsing_finished.
C21_Witness ==
    /\ run_pc = "finished"
    /\ running /\ stop_flag
    /\ Len(futures) = 2
    /\ Len(yielded) = 1

====
